---- MODULE Spec2Model ----
(***************************************************************************)
(* Model of equisolve.utils.convert (properties_to_tensormap and           *)
(* ase_to_tensormap) and of the rmse metric.  A call is executed statement *)
(* by statement; the program counter pc names the statement that runs      *)
(* next.  numpy arrays are records [shape, data] with data in row-major    *)
(* order, equistore Labels are records [names, values] with one sequence   *)
(* per row, and an optional argument is <<>> (None) or <<x>>.              *)
(***************************************************************************)
EXTENDS Integers, Sequences, FiniteSets, TLC

VARIABLES pc, err, entry, values, positions_gradients, cell_gradients,
          is_structure_property, property_name, n_structures, block,
          gradient_values, result,
          frames, energy, forces, stress,
          y_true, y_pred, parameter_key, loss

\* the arguments and locals of ase_to_tensormap that are its own
aseVars == <<frames, energy, forces, stress>>

\* the arguments and the result of rmse
rmseVars == <<y_true, y_pred, parameter_key, loss>>

vars == <<pc, err, entry, values, positions_gradients, cell_gradients,
          is_structure_property, property_name, n_structures, block,
          gradient_values, result, aseVars, rmseVars>>

(* ------------------------------ bounds --------------------------------- *)

\* largest number of structures (length of values and of the gradient lists)
MaxN == 2

\* largest number of atoms of one structure
MaxAtoms == 2

\* the scalars a value is drawn from
Scalars == {1, 2}

\* the property names a call is made with; "property" is the default
PropertyNames == {"property", "energy"}

(* --------------------------- numpy helpers ----------------------------- *)

None == <<>>

Some(x) == <<x>>

Arr(shape, data) == [shape |-> shape, data |-> data]

RECURSIVE Product(_)
Product(s) == IF s = <<>> THEN 1 ELSE Head(s) * Product(Tail(s))

\* an array of the given shape holding base+1, base+2, ... in row-major order
Fill(shape, base) == Arr(shape, [i \in 1..Product(shape) |-> base + i])

\* numpy's len(): the size of the first axis
Len0(a) == a.shape[1]

\* a.shape[k] with python's 0-based k; the caller guards k < ndim
ShapeAt(a, k) == a.shape[k + 1]

Ndim(a) == Len(a.shape)

\* np.arange(n).reshape(-1, 1): the rows (0,), (1,), ..., (n-1,)
ArangeColumn(n) == [i \in 1..n |-> <<i - 1>>]

Labels(names, rows) == [names |-> names, values |-> rows]

\* Labels.single(): the one key of a single-block tensor map
LabelsSingle == Labels(<<"_">>, <<<<0>>>>)

RECURSIVE ConcatData(_)
ConcatData(arrays) ==
    IF arrays = <<>> THEN <<>>
    ELSE Head(arrays).data \o ConcatData(Tail(arrays))

RECURSIVE SumLen0(_)
SumLen0(arrays) ==
    IF arrays = <<>> THEN 0 ELSE Len0(Head(arrays)) + SumLen0(Tail(arrays))

\* np.concatenate(arrays, axis=0) raises ValueError for an empty list, for a
\* zero-dimensional array and for arrays whose dimensions, or whose shapes
\* after the first axis, differ
ConcatenateFails(arrays) ==
    \/ arrays = <<>>
    \/ \E i \in 1..Len(arrays) : Ndim(arrays[i]) = 0
    \/ \E i, j \in 1..Len(arrays) : Tail(arrays[i].shape) # Tail(arrays[j].shape)

Concatenate(arrays) ==
    Arr(<<SumLen0(arrays)>> \o Tail(arrays[1].shape), ConcatData(arrays))

\* a.reshape(-1, d1, ..., dk): the first axis takes what is left of the size
ReshapeRows(a, trailing) ==
    Arr(<<Len(a.data) \div Product(trailing)>> \o trailing, a.data)

(* ------------------------------ inputs --------------------------------- *)

\* the sequences over S of length at most n
SeqUpTo(S, n) == UNION {[1..k -> S] : k \in 0..n}

\* per-structure arrays a caller may pass in positions_gradients: (a, 3)
\* arrays for a = 0..MaxAtoms, one array with two columns, one
\* one-dimensional array and one zero-dimensional array
PositionEntries ==
    {Fill(<<a, 3>>, 10 * a) : a \in 0..MaxAtoms}
        \cup {Fill(<<1, 2>>, 50), Fill(<<3>>, 60), Fill(<<>>, 70)}

\* shapes after the first axis a caller may pass in cell_gradients
CellTrailing == {<<3, 3>>, <<3, 4>>, <<3>>, <<>>}

CellInputs == {Fill(<<n>> \o t, 100) : n \in 0..MaxN, t \in CellTrailing}

(* ------------------------ properties_to_tensormap ---------------------- *)

Init ==
    /\ pc = "idle"
    /\ err = ""
    /\ values = <<>>
    /\ positions_gradients = None
    /\ cell_gradients = None
    /\ is_structure_property = TRUE
    /\ property_name = "property"
    /\ n_structures = 0
    /\ block = None
    /\ gradient_values = None
    /\ result = None
    /\ entry = ""
    /\ frames = <<>>
    /\ energy = None
    /\ forces = None
    /\ stress = None
    /\ y_true = <<>>
    /\ y_pred = <<>>
    /\ parameter_key = "values"
    /\ loss = <<>>

\* the statement at label l runs next: no exception is propagating
At(l) == pc = l /\ err = ""

\* raise kind(...): the call ends with the exception, pc stays at the
\* statement that raised it
Raise(kind) ==
    /\ pc' = pc
    /\ err' = kind

\* a caller invokes properties_to_tensormap
Call ==
    /\ At("idle")
    /\ \E v \in SeqUpTo(Scalars, MaxN),
          p \in {None} \cup {Some(l) : l \in SeqUpTo(PositionEntries, MaxN)},
          c \in {None} \cup {Some(a) : a \in CellInputs},
          isp \in BOOLEAN,
          name \in PropertyNames :
        /\ values' = v
        /\ positions_gradients' = p
        /\ cell_gradients' = c
        /\ is_structure_property' = isp
        /\ property_name' = name
    /\ pc' = "check_support"
    /\ entry' = "properties_to_tensormap"
    /\ UNCHANGED <<err, n_structures, block, gradient_values, result,
                   aseVars, rmseVars>>

\* if not (is_structure_property): raise NotImplementedError
CheckSupport ==
    /\ At("check_support")
    /\ IF is_structure_property
       THEN pc' = "build_block" /\ err' = err
       ELSE Raise("NotImplementedError")
    /\ UNCHANGED <<values, positions_gradients, cell_gradients,
                   is_structure_property, property_name, n_structures, block,
                   gradient_values, result,
                   entry, aseVars, rmseVars>>

\* ValueBlock with the sample rows counted from 1 instead of 0
ValueBlockOneBased(vals, n, name) ==
    [values |-> ReshapeRows(Arr(<<Len(vals)>>, vals), <<1>>),
     samples |-> Labels(<<"structure">>, [i \in 1..n |-> <<i>>]),
     components |-> <<>>,
     properties |-> Labels(<<name>>, <<<<0>>>>),
     gradients |-> <<>>]

\* the value block: values reshaped to (N, 1), samples structure = 0..N-1,
\* no components, the one property (0,) named property_name
ValueBlock(vals, n, name) ==
    [values |-> ReshapeRows(Arr(<<Len(vals)>>, vals), <<1>>),
     samples |-> Labels(<<"structure">>, ArangeColumn(n)),
     components |-> <<>>,
     properties |-> Labels(<<name>>, <<<<0>>>>),
     gradients |-> <<>>]

\* n_structures = len(values); block = TensorBlock(...)
BuildBlock ==
    /\ At("build_block")
    /\ n_structures' = Len(values)
    /\ block' = Some(ValueBlock(values, Len(values), property_name))
    /\ pc' = "positions"
    /\ UNCHANGED <<err, values, positions_gradients, cell_gradients,
                   is_structure_property, property_name, gradient_values,
                   result,
                   entry, aseVars, rmseVars>>

\* if n_structures != len(positions_gradients): raise ValueError
CheckPositionsLength ==
    /\ At("positions")
    /\ IF positions_gradients = None
       THEN pc' = "cell" /\ err' = err
       ELSE IF n_structures # Len(positions_gradients[1])
            THEN Raise("ValueError")
            ELSE pc' = "concatenate" /\ err' = err
    /\ UNCHANGED <<values, positions_gradients, cell_gradients,
                   is_structure_property, property_name, n_structures, block,
                   gradient_values, result,
                   entry, aseVars, rmseVars>>

\* gradient_values = np.concatenate(positions_gradients, axis=0)
ConcatenatePositions ==
    /\ At("concatenate")
    /\ IF ConcatenateFails(positions_gradients[1])
       THEN Raise("ValueError") /\ gradient_values' = gradient_values
       ELSE /\ gradient_values' = Some(Concatenate(positions_gradients[1]))
            /\ pc' = "check_columns"
            /\ err' = err
    /\ UNCHANGED <<values, positions_gradients, cell_gradients,
                   is_structure_property, property_name, n_structures, block,
                   result,
                   entry, aseVars, rmseVars>>

\* the error of `if gradient_values.shape[1] != 3: raise ValueError(...)`,
\* "" when the check passes: shape[1] of a one-dimensional array is an
\* IndexError
PositionsColumnsError(g) ==
    IF Ndim(g) < 2 THEN "IndexError"
    ELSE IF ShapeAt(g, 1) # 3 THEN "ValueError"
    ELSE ""

CheckPositionsColumns ==
    /\ At("check_columns")
    /\ IF PositionsColumnsError(gradient_values[1]) # ""
       THEN Raise(PositionsColumnsError(gradient_values[1]))
       ELSE pc' = "add_positions" /\ err' = err
    /\ UNCHANGED <<values, positions_gradients, cell_gradients,
                   is_structure_property, property_name, n_structures, block,
                   gradient_values, result,
                   entry, aseVars, rmseVars>>

\* PositionSampleRows with every structure given the atom count of the
\* first one
RECURSIVE PositionSampleRowsFirstCount(_, _, _)
PositionSampleRowsFirstCount(pg, from, n) ==
    IF from >= n THEN <<>>
    ELSE [a \in 1..Len0(pg[1]) |-> <<from, from, a - 1>>]
             \o PositionSampleRowsFirstCount(pg, from + 1, n)

\* [[s, s, a] for s in range(n) for a in range(len(pg[s]))], s counted
\* from `from`
RECURSIVE PositionSampleRows(_, _, _)
PositionSampleRows(pg, from, n) ==
    IF from >= n THEN <<>>
    ELSE [a \in 1..Len0(pg[from + 1]) |-> <<from, from, a - 1>>]
             \o PositionSampleRows(pg, from + 1, n)

\* the number of spatial directions of a gradient component axis
NDirections == 3

\* GradientProperties with fresh labels under the default property name
GradientPropertiesDefaultName(parent) == Labels(<<"property">>, <<<<0>>>>)

\* the properties labels a gradient block is given: block.properties
GradientProperties(parent) == parent.properties

\* TensorBlock(values=gradient_values.reshape(-1, 3, 1), samples=...,
\*             components=[direction], properties=block.properties)
PositionsGradientBlock(parent, g, pg, n) ==
    [values |-> ReshapeRows(g, <<NDirections, 1>>),
     samples |-> Labels(<<"sample", "structure", "atom">>,
                        PositionSampleRows(pg, 0, n)),
     components |-> <<Labels(<<"direction">>, ArangeColumn(NDirections))>>,
     properties |-> GradientProperties(parent)]

\* add_gradient that leaves the block without the gradient
AddGradientDropped(b, name, gradient) == b

\* block.add_gradient(name, gradient)
AddGradient(b, name, gradient) ==
    [b EXCEPT !.gradients = @ \o <<[name |-> name, block |-> gradient]>>]

AddPositionsGradient ==
    /\ At("add_positions")
    /\ block' = Some(AddGradient(block[1], "positions",
                        PositionsGradientBlock(block[1], gradient_values[1],
                            positions_gradients[1], n_structures)))
    /\ pc' = "cell"
    /\ UNCHANGED <<err, values, positions_gradients, cell_gradients,
                   is_structure_property, property_name, n_structures,
                   gradient_values, result,
                   entry, aseVars, rmseVars>>

\* if n_structures != len(cell_gradients): raise ValueError
CheckCellLength ==
    /\ At("cell")
    /\ IF cell_gradients = None
       THEN pc' = "return" /\ err' = err
       ELSE IF n_structures # Len0(cell_gradients[1])
            THEN Raise("ValueError")
            ELSE pc' = "check_cell_shape" /\ err' = err
    /\ UNCHANGED <<values, positions_gradients, cell_gradients,
                   is_structure_property, property_name, n_structures, block,
                   gradient_values, result,
                   entry, aseVars, rmseVars>>

\* the error of `if gradient_values.shape[1:] != (3, 3): raise ValueError(
\* f"... {gradient_values.shape[1]} x {gradient_values.shape[2]}")`, "" when
\* the check passes: the message is formatted before the raise, and
\* shape[1] or shape[2] of an array of fewer than three dimensions is an
\* IndexError
CellShapeError(g) ==
    IF Tail(g.shape) = <<NDirections, NDirections>> THEN ""
    ELSE IF Ndim(g) < 3 THEN "IndexError"
    ELSE "ValueError"

\* gradient_values = np.asarray(cell_gradients); the shape check
CheckCellShape ==
    /\ At("check_cell_shape")
    /\ gradient_values' = Some(cell_gradients[1])
    /\ IF CellShapeError(cell_gradients[1]) # ""
       THEN Raise(CellShapeError(cell_gradients[1]))
       ELSE pc' = "add_cell" /\ err' = err
    /\ UNCHANGED <<values, positions_gradients, cell_gradients,
                   is_structure_property, property_name, n_structures, block,
                   result,
                   entry, aseVars, rmseVars>>

\* np.array([[s] for s in range(n_structures)])
CellSampleRows(n) == [i \in 1..n |-> <<i - 1>>]

\* TensorBlock(values=gradient_values.reshape(-1, 3, 3, 1), samples=...,
\*             components=[direction_1, direction_2],
\*             properties=block.properties)
CellGradientBlock(parent, g, n) ==
    [values |-> ReshapeRows(g, <<NDirections, NDirections, 1>>),
     samples |-> Labels(<<"sample">>, CellSampleRows(n)),
     components |-> <<Labels(<<"direction_1">>, ArangeColumn(NDirections)),
                      Labels(<<"direction_2">>, ArangeColumn(NDirections))>>,
     properties |-> GradientProperties(parent)]

AddCellGradient ==
    /\ At("add_cell")
    /\ block' = Some(AddGradient(block[1], "cell",
                        CellGradientBlock(block[1], gradient_values[1],
                                          n_structures)))
    /\ pc' = "return"
    /\ UNCHANGED <<err, values, positions_gradients, cell_gradients,
                   is_structure_property, property_name, n_structures,
                   gradient_values, result,
                   entry, aseVars, rmseVars>>

\* TensorMap(Labels.single(), [block])
TensorMap(keys, blocks) == [keys |-> keys, blocks |-> blocks]

\* return TensorMap(Labels.single(), [block])
Return ==
    /\ At("return")
    /\ result' = Some(TensorMap(LabelsSingle, <<block[1]>>))
    /\ pc' = "returned"
    /\ UNCHANGED <<err, values, positions_gradients, cell_gradients,
                   is_structure_property, property_name, n_structures, block,
                   gradient_values,
                   entry, aseVars, rmseVars>>

(* --------------------------- ase_to_tensormap -------------------------- *)

\* the implemented_properties a calculator may advertise
Calculators ==
    {{"energy"}, {"energy", "forces"}, {"energy", "stress"},
     {"energy", "forces", "stress"}}

\* an ase.Atoms: its number of atoms and its calculator (None or the
\* properties the calculator implements).  Its info and arrays hold an
\* entry for every key a call names.
Frames ==
    [natoms : 1..MaxAtoms, calc : {None} \cup {Some(c) : c \in Calculators}]

\* f.info[energy] and f.get_potential_energy()
FrameEnergy(f) == f.natoms

\* f.arrays[forces] and f.get_forces(): one row of 3 per atom
FrameForces(f) == Fill(<<f.natoms, 3>>, 10 * f.natoms)

\* f.info[stress] and f.get_stress(voigt=False): a 3 x 3 matrix
FrameStress(f) == Fill(<<3, 3>>, 100 * f.natoms)

\* unary minus of an array
Negate(a) == Arr(a.shape, [i \in DOMAIN a.data |-> 0 - a.data[i]])

\* np.asarray of a list of equally shaped arrays; of the empty list it is
\* an array of shape (0,)
Stack(arrays) ==
    IF arrays = <<>> THEN Arr(<<0>>, <<>>)
    ELSE Arr(<<Len(arrays)>> \o arrays[1].shape, ConcatData(arrays))

\* (f.get_calculator() is not None) and
\* ("forces" in f.get_calculator().implemented_properties)
HasForces(f) == f.calc # None /\ "forces" \in f.calc[1]

\* the exception f.get_stress(voigt=False) raises, "" when it returns
StressFailure(f) ==
    IF f.calc = None THEN "RuntimeError"
    ELSE IF "stress" \notin f.calc[1] THEN "PropertyNotImplementedError"
    ELSE ""

\* the exception of the first frame whose get_stress raises, "" when none does
RECURSIVE FirstStressFailure(_)
FirstStressFailure(fs) ==
    IF fs = <<>> THEN ""
    ELSE IF StressFailure(Head(fs)) # "" THEN StressFailure(Head(fs))
    ELSE FirstStressFailure(Tail(fs))

\* a caller invokes ase_to_tensormap with a list of frames
AseCall ==
    /\ At("idle")
    /\ \E fs \in SeqUpTo(Frames, MaxN),
          e \in {None, Some("U")},
          f \in {None, Some("F")},
          st \in {None, Some("S")} :
        /\ frames' = fs
        /\ energy' = e
        /\ forces' = f
        /\ stress' = st
    /\ entry' = "ase_to_tensormap"
    /\ pc' = "ase_values"
    /\ UNCHANGED <<err, values, positions_gradients, cell_gradients,
                   is_structure_property, property_name, n_structures, block,
                   gradient_values, result, rmseVars>>

\* values = [f.info[energy] ...], or energy = "energy" and
\* values = [f.get_potential_energy() ...], which raises RuntimeError for a
\* frame without calculator
AseValues ==
    /\ At("ase_values")
    /\ IF energy # None
       THEN /\ values' = [i \in 1..Len(frames) |-> FrameEnergy(frames[i])]
            /\ energy' = energy
            /\ pc' = "ase_forces"
            /\ err' = err
       ELSE /\ energy' = Some("energy")
            /\ IF \E i \in 1..Len(frames) : frames[i].calc = None
               THEN Raise("RuntimeError") /\ values' = values
               ELSE /\ values' = [i \in 1..Len(frames) |->
                                     FrameEnergy(frames[i])]
                    /\ pc' = "ase_forces"
                    /\ err' = err
    /\ UNCHANGED <<entry, positions_gradients, cell_gradients,
                   is_structure_property, property_name, n_structures, block,
                   gradient_values, result, frames, forces, stress, rmseVars>>

\* The outcome of the list comprehension of lines 49-51,
\*   [-f.get_forces() if <f has forces> else raise AttributeError(...) ...],
\* which is reached when the first frame has a calculator with forces:
\* <<error, positions_gradients>>.  `raise` is a statement and cannot stand
\* in a conditional expression, so the interpreter rejects the text with a
\* SyntaxError and the comprehension never runs.  The model places the
\* rejection at this statement and gives the other statements of the
\* module the meaning they are written with.
ForcesFromCalculators(fs) == <<"SyntaxError", None>>

\* positions_gradients = [-f.arrays[forces] ...], or the computed forces
\* when the first frame advertises them, or None
AseForces ==
    /\ At("ase_forces")
    /\ IF forces # None
       THEN /\ positions_gradients' =
                   Some([i \in 1..Len(frames) |->
                            Negate(FrameForces(frames[i]))])
            /\ pc' = "ase_stress"
            /\ err' = err
       ELSE IF frames = <<>>
       THEN Raise("IndexError") /\ positions_gradients' = positions_gradients
       ELSE IF HasForces(frames[1])
       THEN /\ positions_gradients' = ForcesFromCalculators(frames)[2]
            /\ IF ForcesFromCalculators(frames)[1] # ""
               THEN Raise(ForcesFromCalculators(frames)[1])
               ELSE pc' = "ase_stress" /\ err' = err
       ELSE /\ positions_gradients' = None
            /\ pc' = "ase_stress"
            /\ err' = err
    /\ UNCHANGED <<entry, values, cell_gradients, is_structure_property,
                   property_name, n_structures, block, gradient_values,
                   result, aseVars, rmseVars>>

\* The outcome of
\*   try: cell_gradients = [-f.get_stress(voigt=False) for f in frames]
\*   except ase.ase.calculators.calculator.PropertyNotImplementedError:
\*       cell_gradients = None
\* as <<error, cell_gradients>>.  When get_stress raises, the except clause
\* evaluates ase.ase..., and the package ase has no attribute ase: the
\* AttributeError of that lookup replaces the exception being handled.
StressFromCalculators(fs) ==
    IF FirstStressFailure(fs) # "" THEN <<"AttributeError", None>>
    ELSE <<"", Some(Stack([i \in 1..Len(fs) |-> Negate(FrameStress(fs[i]))]))>>

\* cell_gradients = [-f.info[stress] ...], or the computed stress
AseStress ==
    /\ At("ase_stress")
    /\ IF stress # None
       THEN /\ cell_gradients' =
                   Some(Stack([i \in 1..Len(frames) |->
                                  Negate(FrameStress(frames[i]))]))
            /\ pc' = "ase_delegate"
            /\ err' = err
       ELSE /\ cell_gradients' = StressFromCalculators(frames)[2]
            /\ IF StressFromCalculators(frames)[1] # ""
               THEN Raise(StressFromCalculators(frames)[1])
               ELSE pc' = "ase_delegate" /\ err' = err
    /\ UNCHANGED <<entry, values, positions_gradients, is_structure_property,
                   property_name, n_structures, block, gradient_values,
                   result, aseVars, rmseVars>>

\* return properties_to_tensormap(values, positions_gradients,
\*                                cell_gradients, property_name=energy)
AseDelegate ==
    /\ At("ase_delegate")
    /\ is_structure_property' = TRUE
    /\ property_name' = energy[1]
    /\ pc' = "check_support"
    /\ UNCHANGED <<err, entry, values, positions_gradients, cell_gradients,
                   n_structures, block, gradient_values, result, aseVars,
                   rmseVars>>

(* -------------------------------- rmse --------------------------------- *)

\* largest number of keys of a tensor map handed to rmse
MaxKeys == 2

\* a value block with a "positions" gradient, built as the converter does
WithPositions(vals, pg) ==
    AddGradient(ValueBlock(vals, Len(vals), "property"), "positions",
                PositionsGradientBlock(ValueBlock(vals, Len(vals), "property"),
                                       Concatenate(pg), pg, Len(vals)))

\* the blocks of the tensor maps handed to rmse: value blocks of zero or one
\* sample without gradient, and one-sample blocks with a positions gradient
\* of no row or of one row
RmseBlocks ==
    {ValueBlock(v, Len(v), "property") : v \in SeqUpTo(Scalars, 1)}
        \cup {WithPositions(<<1>>, <<g>>) :
                 g \in {Fill(<<0, 3>>, 0), Fill(<<1, 3>>, 0), Fill(<<1, 3>>, 4)}}

\* Labels.range("key", end=n)
LabelsRange(name, n) == Labels(<<name>>, ArangeColumn(n))

RmseMaps ==
    {TensorMap(LabelsRange("key", Len(bs)), bs) :
        bs \in SeqUpTo(RmseBlocks, MaxKeys)}

GradientNames(b) == {b.gradients[i].name : i \in DOMAIN b.gradients}

GradientOf(b, name) ==
    b.gradients[CHOOSE i \in DOMAIN b.gradients : b.gradients[i].name = name]
        .block

\* select: "values" is the block's values array, any other name the values
\* array of the gradient of that name
Select(b, key) ==
    IF key = "values" THEN b.values ELSE GradientOf(b, key).values

\* SumSquares of the sums instead of the differences
RECURSIVE SumSquaresOfSums(_, _)
SumSquaresOfSums(a, b) ==
    IF a = <<>> THEN 0
    ELSE (Head(a) + Head(b)) * (Head(a) + Head(b))
             + SumSquaresOfSums(Tail(a), Tail(b))

RECURSIVE SumSquares(_, _)
SumSquares(a, b) ==
    IF a = <<>> THEN 0
    ELSE (Head(a) - Head(b)) * (Head(a) - Head(b))
             + SumSquares(Tail(a), Tail(b))

\* the largest r in lo..hi with r * r <= x
RECURSIVE ISqrtBetween(_, _, _)
ISqrtBetween(x, lo, hi) ==
    IF lo >= hi THEN lo
    ELSE IF ((lo + hi + 1) \div 2) * ((lo + hi + 1) \div 2) <= x
         THEN ISqrtBetween(x, (lo + hi + 1) \div 2, hi)
         ELSE ISqrtBetween(x, lo, ((lo + hi + 1) \div 2) - 1)

\* mean(d): the sum over the number of elements, which has no value (None)
\* for an array of no elements
MeanSquare(a, b) ==
    IF a = <<>> THEN None
    ELSE Some([num |-> SumSquares(a, b), den |-> Len(a)])

\* sqrt(mean((flatten(a) - flatten(b))^2)) in hundredths, rounded down; None
\* when the mean has no value
RmseOf(a, b) ==
    IF MeanSquare(a, b) = None THEN None
    ELSE Some(ISqrtBetween((MeanSquare(a, b)[1].num * 10000)
                               \div MeanSquare(a, b)[1].den,
                           0, 100 * (MeanSquare(a, b)[1].num + 1)))

\* the error of rmse for the blocks of one key, "" when there is none
BlockError(bt, bp, key) ==
    IF key # "values"
          /\ (key \notin GradientNames(bt) \/ key \notin GradientNames(bp))
    THEN "UnknownParameter"
    ELSE IF Len(Select(bt, key).data) # Len(Select(bp, key).data)
    THEN "ShapeMismatch"
    ELSE ""

\* the error rmse fails with, "" when it returns: a difference of the key
\* sets, or the error of the first key that has one
RmseError(yt, yp, key) ==
    IF yt.keys # yp.keys THEN "KeyMismatch"
    ELSE IF \A k \in 1..Len(yt.blocks) :
                BlockError(yt.blocks[k], yp.blocks[k], key) = ""
    THEN ""
    ELSE BlockError(
             yt.blocks[CHOOSE k \in 1..Len(yt.blocks) :
                /\ BlockError(yt.blocks[k], yp.blocks[k], key) # ""
                /\ \A j \in 1..(k - 1) :
                      BlockError(yt.blocks[j], yp.blocks[j], key) = ""],
             yp.blocks[CHOOSE k \in 1..Len(yt.blocks) :
                /\ BlockError(yt.blocks[k], yp.blocks[k], key) # ""
                /\ \A j \in 1..(k - 1) :
                      BlockError(yt.blocks[j], yp.blocks[j], key) = ""],
             key)

\* the per-key errors, in the order of y_true's keys
RmseLoss(yt, yp, key) ==
    [k \in 1..Len(yt.blocks) |->
        RmseOf(Select(yt.blocks[k], key).data, Select(yp.blocks[k], key).data)]

\* a caller invokes rmse(y_true, y_pred, parameter_key)
Rmse ==
    /\ At("idle")
    /\ \E yt \in RmseMaps, yp \in RmseMaps,
          key \in {"values", "positions"} :
        /\ y_true' = yt
        /\ y_pred' = yp
        /\ parameter_key' = key
        /\ IF RmseError(yt, yp, key) # ""
           THEN /\ pc' = "rmse"
                /\ err' = RmseError(yt, yp, key)
                /\ loss' = loss
           ELSE /\ loss' = RmseLoss(yt, yp, key)
                /\ pc' = "returned"
                /\ err' = err
    /\ entry' = "rmse"
    /\ UNCHANGED <<values, positions_gradients, cell_gradients,
                   is_structure_property, property_name, n_structures, block,
                   gradient_values, result, aseVars>>

Next ==
    \/ Call
    \/ CheckSupport
    \/ BuildBlock
    \/ CheckPositionsLength
    \/ ConcatenatePositions
    \/ CheckPositionsColumns
    \/ AddPositionsGradient
    \/ CheckCellLength
    \/ CheckCellShape
    \/ AddCellGradient
    \/ Return
    \/ AseCall
    \/ AseValues
    \/ AseForces
    \/ AseStress
    \/ AseDelegate
    \/ Rmse

Spec == Init /\ [][Next]_vars


(* ------------------------------- claims -------------------------------- *)

\* the labels of the statements of properties_to_tensormap
ConverterLabels ==
    {"check_support", "build_block", "positions", "concatenate",
     "check_columns", "add_positions", "cell", "check_cell_shape", "add_cell",
     "return", "returned"}

\* a call of properties_to_tensormap, direct or through ase_to_tensormap, is
\* executing or has ended
InConverter ==
    entry \in {"properties_to_tensormap", "ase_to_tensormap"}
        /\ pc \in ConverterLabels

\* the converter has returned a tensor map
Returned == InConverter /\ pc = "returned"

\* the converter has ended with an exception
Failed == InConverter /\ err # ""

\* the one block of the returned tensor map
TheBlock == result[1].blocks[1]

\* the atom count of structure s (0-based) of the call
AtomsOf(s) == Len0(positions_gradients[1][s + 1])

\* the number of gradient rows that precede those of structure s
RECURSIVE RowsBefore(_)
RowsBefore(s) == IF s = 0 THEN 0 ELSE RowsBefore(s - 1) + AtomsOf(s - 1)

\* C1: a call without gradients never fails, and the tensor map it returns
\* has exactly one block: values of shape (N, 1) with values[i] in row i,
\* samples one column "structure" with rows 0..N-1 in order, properties one
\* column named property_name with the single row (0,), and no components.
C1_ValueBlockShape ==
    (InConverter /\ positions_gradients = None /\ cell_gradients = None
        /\ is_structure_property)
    => /\ err = ""
       /\ pc = "returned" =>
            /\ Len(result) = 1
            /\ Len(result[1].blocks) = 1
            /\ TheBlock.values.shape = <<Len(values), 1>>
            /\ Len(TheBlock.values.data) = Len(values)
            /\ \A i \in 1..Len(values) : TheBlock.values.data[i] = values[i]
            /\ TheBlock.samples.names = <<"structure">>
            /\ Len(TheBlock.samples.values) = Len(values)
            /\ \A i \in 1..Len(values) : TheBlock.samples.values[i] = <<i - 1>>
            /\ TheBlock.properties.names = <<property_name>>
            /\ TheBlock.properties.values = <<<<0>>>>
            /\ TheBlock.components = <<>>
            /\ TheBlock.gradients = <<>>

\* a call without gradients has returned a block of MaxN different values
C1_Witness ==
    /\ Returned
    /\ entry = "properties_to_tensormap"
    /\ positions_gradients = None
    /\ cell_gradients = None
    /\ Len(values) = MaxN
    /\ values[1] # values[MaxN]

\* C2: a successful call with positions_gradients of atom counts a_0..a_N-1
\* attaches a "positions" gradient with exactly sum(a_i) sample rows, which
\* are (sample = s, structure = s, atom = a) for s = 0..N-1 and
\* a = 0..a_s-1 in that order, and row k of its values is row k of the
\* concatenated input gradients.
C2_PositionsGradientRows ==
    (Returned /\ positions_gradients # None)
    => /\ "positions" \in GradientNames(TheBlock)
       /\ LET g == GradientOf(TheBlock, "positions")
              n == Len(values)
          IN /\ g.samples.names = <<"sample", "structure", "atom">>
             /\ Len(g.samples.values) = RowsBefore(n)
             /\ g.values.shape = <<RowsBefore(n), 3, 1>>
             /\ Len(g.values.data) = 3 * RowsBefore(n)
             /\ \A s \in 0..(n - 1) : \A a \in 0..(AtomsOf(s) - 1) :
                   /\ g.samples.values[RowsBefore(s) + a + 1] = <<s, s, a>>
                   /\ \A c \in 1..3 :
                         g.values.data[3 * (RowsBefore(s) + a) + c]
                             = positions_gradients[1][s + 1].data[3 * a + c]

\* a call has returned with the gradients of two structures of different
\* atom counts, the first of them with more than one atom
C2_Witness ==
    /\ Returned
    /\ positions_gradients # None
    /\ Len(values) = 2
    /\ AtomsOf(0) > 1
    /\ AtomsOf(1) # AtomsOf(0)

\* C5: in every returned tensor map, each attached gradient sub-block has
\* the parent block's properties labels: one column named property_name with
\* the single row (0,).
C5_GradientPropertiesEqualParent ==
    Returned
    => \A i \in DOMAIN TheBlock.gradients :
          /\ TheBlock.gradients[i].block.properties = TheBlock.properties
          /\ TheBlock.gradients[i].block.properties.names = <<property_name>>
          /\ TheBlock.gradients[i].block.properties.values = <<<<0>>>>

\* a call under a property name other than the default has returned a block
\* with both gradients
C5_Witness ==
    /\ Returned
    /\ property_name # "property"
    /\ GradientNames(TheBlock) = {"positions", "cell"}

\* C3: a call whose cell_gradients pass the length check fails with
\* ValueError when their shape after the first axis is anything but (3, 3);
\* with shape (N, 3, 3) the cell checks pass and the returned block has a
\* "cell" gradient with the two component axes direction_1 and direction_2,
\* each with the rows 0, 1, 2, and the N sample rows (sample = s).
C3_CellShapeEnforced ==
    (InConverter /\ cell_gradients # None)
    => /\ (pc = "check_cell_shape" /\ err # "")
            => /\ err = "ValueError"
               /\ Tail(cell_gradients[1].shape) # <<3, 3>>
       /\ pc \in {"add_cell", "return", "returned"}
            => Tail(cell_gradients[1].shape) = <<3, 3>>
       /\ pc = "returned"
            => /\ "cell" \in GradientNames(TheBlock)
               /\ LET g == GradientOf(TheBlock, "cell")
                  IN /\ Len(g.components) = 2
                     /\ g.components[1] =
                           Labels(<<"direction_1">>, <<<<0>>, <<1>>, <<2>>>>)
                     /\ g.components[2] =
                           Labels(<<"direction_2">>, <<<<0>>, <<1>>, <<2>>>>)
                     /\ g.samples.names = <<"sample">>
                     /\ Len(g.samples.values) = Len(values)
                     /\ \A i \in 1..Len(values) :
                           g.samples.values[i] = <<i - 1>>

\* a supplied gradient collection has a length other than len(values)
LengthMismatch ==
    \/ positions_gradients # None
          /\ Len(positions_gradients[1]) # Len(values)
    \/ cell_gradients # None /\ Len0(cell_gradients[1]) # Len(values)

\* C4: a call of a structure property in which a supplied gradient
\* collection has a length other than len(values) ends with ValueError and
\* returns no tensor map, whatever the gradients hold.
C4_LengthMismatchRaises ==
    (InConverter /\ is_structure_property /\ LengthMismatch
        /\ (pc = "returned" \/ err # ""))
    => err = "ValueError" /\ result = None

\* every array of the list has at least two dimensions and a last
\* dimension of 3
AllThreeColumns(l) ==
    /\ l # <<>>
    /\ \A i \in 1..Len(l) :
          Ndim(l[i]) >= 2 /\ l[i].shape[Ndim(l[i])] = 3

\* C6: a call of a structure property whose positions_gradients have length
\* N but are not all arrays with a last dimension of 3 (arrays of fewer than
\* two dimensions, arrays whose shapes differ and the empty list included)
\* ends with ValueError, with no other error, and returns nothing.
C6_PositionsColumnsRaise ==
    (InConverter /\ is_structure_property /\ positions_gradients # None
        /\ Len(positions_gradients[1]) = Len(values)
        /\ ~AllThreeColumns(positions_gradients[1])
        /\ (pc = "returned" \/ err # ""))
    => err = "ValueError" /\ result = None

\* C7 as stated: a ValueError of the converter is raised before any block
\* or gradient sub-block has been constructed or attached.
C7_RaisedBeforeConstruction ==
    (Failed /\ err = "ValueError") => block = None

\* C7 as the code has it: a call that ends with ValueError returns no tensor
\* map, but the value block is constructed before every check of the
\* gradients, and a ValueError of the cell checks that follows accepted
\* positions gradients is raised with the "positions" gradient attached.
C7_NoOutputOnValueError ==
    (Failed /\ err = "ValueError")
    => /\ result = None
       /\ block # None
       /\ (pc \in {"cell", "check_cell_shape"} /\ positions_gradients # None)
            => "positions" \in GradientNames(block[1])

\* the cell shape check has rejected cell gradients that follow accepted
\* positions gradients
C7_Witness ==
    /\ Failed
    /\ err = "ValueError"
    /\ pc = "check_cell_shape"
    /\ positions_gradients # None
    /\ Len(values) > 0

\* ase_to_tensormap has executed the statement that sets positions_gradients
AfterAseForces ==
    /\ entry = "ase_to_tensormap"
    /\ pc \notin {"idle", "ase_values"}
    /\ pc = "ase_forces" => err # ""

\* C8: without a forces key, when the first frame has a calculator with
\* forces, positions_gradients are the negated computed forces of every
\* frame if all frames have them, and the call fails at that statement with
\* AttributeError and no tensor map if a later frame lacks them; when the
\* first frame has none, positions_gradients is None.
C8_ForcesCapability ==
    (AfterAseForces /\ forces = None /\ frames # <<>>)
    => IF HasForces(frames[1])
       THEN IF \A i \in 1..Len(frames) : HasForces(frames[i])
            THEN /\ ~(pc = "ase_forces" /\ err # "")
                 /\ positions_gradients =
                       Some([i \in 1..Len(frames) |->
                                Negate(FrameForces(frames[i]))])
            ELSE /\ pc = "ase_forces"
                 /\ err = "AttributeError"
                 /\ result = None
       ELSE /\ ~(pc = "ase_forces" /\ err # "")
            /\ positions_gradients = None

\* ase_to_tensormap has executed the statement that sets cell_gradients
AfterAseStress ==
    /\ entry = "ase_to_tensormap"
    /\ pc \notin {"idle", "ase_values", "ase_forces"}
    /\ pc = "ase_stress" => err # ""

\* C9: without a stress key, when the stress computation of a frame raises
\* the not-implemented failure, the failure is caught, cell_gradients is
\* None and the tensor map the call returns has no "cell" gradient;
\* when no computation fails, cell_gradients are the negated 3 x 3 stresses.
C9_StressNotImplementedCaught ==
    (AfterAseStress /\ stress = None)
    => /\ FirstStressFailure(frames) = "PropertyNotImplementedError"
            => /\ ~(pc = "ase_stress" /\ err # "")
               /\ cell_gradients = None
               /\ pc = "returned" => "cell" \notin GradientNames(TheBlock)
       /\ FirstStressFailure(frames) = ""
            => /\ ~(pc = "ase_stress" /\ err # "")
               /\ cell_gradients =
                     Some(Stack([i \in 1..Len(frames) |->
                                    Negate(FrameStress(frames[i]))]))

\* rmse(X, X, parameter_key) has ended, parameter_key being "values" or a
\* gradient of every block of X
RmseOfItself ==
    /\ entry = "rmse"
    /\ y_true = y_pred
    /\ \A k \in 1..Len(y_true.blocks) :
          parameter_key = "values"
              \/ parameter_key \in GradientNames(y_true.blocks[k])

\* C10 as stated: rmse(X, X, parameter_key) returns one scalar per key of X,
\* every one of them 0.
C10_RmseOfItselfIsZero ==
    RmseOfItself
    => /\ err = ""
       /\ Len(loss) = Len(y_true.keys.values)
       /\ \A k \in 1..Len(loss) : loss[k] = Some(0)

\* C10 for the arrays the formula has a value for: rmse(X, X, parameter_key)
\* returns one result per key of X, in the order of the keys, and the
\* result of every key whose selected array has at least one element is 0.
C10_RmseOfItselfIsZeroWhereDefined ==
    RmseOfItself
    => /\ err = ""
       /\ Len(loss) = Len(y_true.keys.values)
       /\ \A k \in 1..Len(loss) :
             Select(y_true.blocks[k], parameter_key).data # <<>>
                 => loss[k] = Some(0)

\* rmse of a map of MaxKeys blocks with itself, over positions gradients
\* that have elements
C10_Witness ==
    /\ RmseOfItself
    /\ pc = "returned"
    /\ parameter_key = "positions"
    /\ Len(y_true.blocks) = MaxKeys
    /\ \A k \in 1..Len(y_true.blocks) :
          Select(y_true.blocks[k], "positions").data # <<>>

====
